---- MODULE Spec2Model ----
(***************************************************************************)
(* A model of the paginated-menu session engine of BetterNavigator.        *)
(*                                                                         *)
(* The repository holds three generations of the same engine:              *)
(*   "menu"            src/menu.py            class Menu (selectors,       *)
(*                                            reaction_input, add_page)    *)
(*   "Menu"            src/Menu.py            class Menu (older)           *)
(*   "BetterNavigator" src/BetterNavigator.py class BetterNavigator        *)
(* The variable cfg.cls says which class the session is an instance of.    *)
(*                                                                         *)
(* Coroutines are modelled as frames.  A frame's pc names the transport    *)
(* call (or the asyncio.wait) it is suspended on; one step of the model is *)
(* the completion of that await followed by the synchronous code that runs *)
(* up to the next await, which is how the asyncio event loop schedules it. *)
(***************************************************************************)
EXTENDS Integers, Sequences, FiniteSets, TLC

VARIABLES
    cfg,                  \* the class, the construction options, the caller's habits
    pages,                \* self.pages: sequence of page identifiers
    current_page_number,  \* self.current_page_number
    running,              \* self._running
    message,              \* self.message / self._message: 0 is None, else a handle
    live,                 \* the channel: which message handles still exist
    shown,                \* the content last written to the bound message
    frames,               \* the coroutines in flight (display, stop, actions)
    stopped,              \* a stop() call has returned and display has not run since
    last                  \* the call that returned or raised in the step just taken

vars == <<cfg, pages, current_page_number, running, message, live, shown, frames,
          stopped, last>>

(* ------------------------------ bounds --------------------------------- *)
MaxPages == 3
MaxRaceEvents == 2

\* two coroutines: the one that runs display, and one more call of the caller's
Calls == {"loop", "caller"}

(***************************************************************************)
(* Message handles are opaque, so they are named by their role: 1 is the   *)
(* message the session is bound to, 2 is a message it was bound to before  *)
(* and that a call still in flight was issued on.  When a new message is   *)
(* sent it becomes 1 and references to the old one become 2.               *)
(***************************************************************************)
Bound == 1
Former == 2
Handles == {Bound, Former}

(* ------------------------------ values --------------------------------- *)
Classes == {"menu", "Menu", "BetterNavigator"}

\* self._buttons['navigation'] and self._buttons['general'], in dict order
buttons_navigation == <<"first", "prev", "next", "last">>
buttons_general == <<"stop">>
\* the list a session built with selectors=[...] carries
selector_list == <<"sel">>

SeqSet(s) == {s[i] : i \in 1..Len(s)}

\* self._all_buttons (menu.py) and self._buttons (Menu.py, BetterNavigator.py)
all_buttons == SeqSet(buttons_navigation) \cup SeqSet(buttons_general)

Symbols == all_buttons \cup SeqSet(selector_list) \cup {"other"}

Users == {"interactor", "botInteractor", "stranger", "bot"}
IsBot(u) == u \in {"botInteractor", "bot"}
IsInteractor(u) == u \in {"interactor", "botInteractor"}

TaskNames == {"add", "rem", "msg", "aux", "sel"}

NoEvent == [kind |-> "none", user |-> "none", msg |-> 0, emoji |-> "none", ok |-> FALSE]
NoContent == [page |-> 0, num |-> 0, tot |-> 0]
NoRes == [tag |-> "none", exc |-> "none", ev |-> NoEvent, page |-> 0]
NoTasks == [t \in TaskNames |-> [st |-> "none", ev |-> NoEvent]]

IdleFrame ==
    [kind |-> "none", pc |-> "idle", new |-> FALSE, tgt |-> 0, content |-> NoContent,
     sym |-> "none", grp |-> 0, k |-> 0, ret |-> "none", tasks |-> NoTasks,
     payload |-> NoEvent, wtask |-> "none", res |-> NoRes,
     ndel |-> 0, nclr |-> 0, delres |-> "none"]

(* --------------------- navigation state (pure) -------------------------- *)
\* total_pages property
total_pages(pgs) == Len(pgs)

\* current_page property: self.pages[self.current_page_number - 1] with Python's
\* indexing (a negative index counts from the end); 0 stands for IndexError
current_page(pgs, n) ==
    LET i == n - 1
        t == Len(pgs)
    IN  IF 0 <= i /\ i < t THEN pgs[i + 1]
        ELSE IF -t <= i /\ i < 0 THEN pgs[t + i + 1]
        ELSE 0

\* bodies of the decorated actions: the new current_page_number
first_page(n, t) == 1

last_page(n, t) == t

\* previous_page without its wrap-around test
previous_page_unwrapped(n, t) == n - 1

previous_page(n, t) == IF n - 1 < 1 THEN t ELSE n - 1

next_page(n, t) == IF n + 1 > t THEN (n + 1) - t ELSE n + 1

\* set_page's range test: not(0 < page_number <= total_pages) raises ValueError
set_page_ok(p, t) == 0 < p /\ p <= t

\* add_page's body: position defaults to total_pages, then list.insert(position-1, page)
add_page_position(pos, t) == IF pos = 0 THEN t ELSE pos

ListInsert(s, i, x) ==
    \* Python list.insert(i, x) for 0 <= i: clamps at the end
    LET j == IF i > Len(s) THEN Len(s) ELSE i
    IN  SubSeq(s, 1, j) \o <<x>> \o SubSeq(s, j + 1, Len(s))

add_page(pgs, page, pos) == ListInsert(pgs, add_page_position(pos, Len(pgs)) - 1, page)

NavBody(name, n, t) ==
    CASE name = "first" -> first_page(n, t)
      [] name = "prev"  -> previous_page(n, t)
      [] name = "next"  -> next_page(n, t)
      [] name = "last"  -> last_page(n, t)

(***************************************************************************)
(* The decorator update_message.  In menu.py the statement                 *)
(* `return update_message_wrapper` sits inside the wrapper's except block, *)
(* so update_message(func) itself returns None and every decorated name    *)
(* (add_page, first_page, ..., set_page) is bound to None.  In Menu.py and *)
(* BetterNavigator.py the decorator returns the wrapper.                   *)
(***************************************************************************)
\* a decorator that returns its wrapper in every class
update_message_returned(cls) == "wrapper"

update_message(cls) == IF cls = "menu" THEN "None" ELSE "wrapper"

\* the wrapper's signature: (self) in menu.py, (self, *args) in the others
wrapper_takes_args(cls) == cls # "menu"

\* BetterNavigator's wrapper edits only `if self._running`
wrapper_edits(cls, run) == IF cls = "BetterNavigator" THEN run ELSE TRUE

(* ------------------------------ stop() ---------------------------------- *)
(* What stop() does with the outcome of `await self.message.delete()`:     *)
(*   "clear"  go on to the remove_reactions_after test                     *)
(*   "return" stop() returns                                               *)
(*   "raise"  the exception leaves stop()                                  *)
stop_delete_next(cls, outcome) ==
    CASE cls = "menu" ->
            (CASE outcome = "ok"       -> "clear"
               [] outcome = "NotFound" -> "return"
               [] OTHER                -> "raise")
      [] cls = "Menu" ->
            (CASE outcome = "ok"        -> "clear"
               [] outcome = "Forbidden" -> "clear"
               [] OTHER                 -> "raise")
      [] cls = "BetterNavigator" ->
            (CASE outcome = "ok" -> "return"
               [] OTHER          -> "raise")

\* and with the outcome of `await self.message.clear_reactions()`
stop_clear_next(cls, outcome) ==
    CASE cls = "menu" ->
            (CASE outcome \in {"ok", "NotFound", "Forbidden"} -> "return"
               [] OTHER -> "raise")
      [] cls = "Menu" ->
            (CASE outcome \in {"ok", "NotFound", "Forbidden"} -> "return"
               [] OTHER -> "raise")
      [] cls = "BetterNavigator" ->
            (CASE outcome = "ok" -> "return"
               [] OTHER          -> "raise")

(* ----------------------------- rendering -------------------------------- *)
\* _show_page_number (menu.py): False for a one-page menu
show_page_number_(c, pgs) ==
    IF c.cls = "menu" THEN (IF Len(pgs) = 1 THEN FALSE ELSE c.show_page_number)
    ELSE c.show_page_number

\* current_content / current_embed: the page and, when shown, "page i/n"
Render(c, pgs, n) ==
    IF show_page_number_(c, pgs)
    THEN [page |-> current_page(pgs, n), num |-> n, tot |-> Len(pgs)]
    ELSE [page |-> current_page(pgs, n), num |-> 0, tot |-> 0]

\* BetterNavigator.start numbers the first render with the page's own page_number
RenderStart(c, pgs, n) ==
    IF c.cls = "BetterNavigator" /\ c.show_page_number
    THEN [page |-> current_page(pgs, n), num |-> current_page(pgs, n), tot |-> Len(pgs)]
    ELSE Render(c, pgs, n)

(* ------------------------- reaction controls ---------------------------- *)
\* _show_nav_buttons (menu.py) / _show_buttons (Menu.py)
show_nav_buttons_(pgs) == Len(pgs) # 1

\* the groups display attaches, in order: 1 selectors, 2 navigation, 3 general
NGroups == 3

\* a display that attaches the general controls before the navigation controls
GroupSymsGeneralFirst(g) ==
    CASE g = 1 -> selector_list
      [] g = 2 -> buttons_general
      [] g = 3 -> buttons_navigation

GroupSyms(g) ==
    CASE g = 1 -> selector_list
      [] g = 2 -> buttons_navigation
      [] g = 3 -> buttons_general

GroupOn(c, pgs, g) ==
    CASE c.cls = "menu" ->
            c.show_buttons /\
            (CASE g = 1 -> c.selectors
               [] g = 2 -> show_nav_buttons_(pgs)
               [] g = 3 -> c.show_general_buttons)
      [] c.cls = "Menu" -> g # 1 /\ show_nav_buttons_(pgs) /\ c.show_buttons
      [] c.cls = "BetterNavigator" -> g # 1

\* the first group at or after g that display attaches, NGroups + 1 when none
FirstGroup(c, pgs, g) ==
    LET on == {h \in g..NGroups : GroupOn(c, pgs, h)}
    IN  IF on = {} THEN NGroups + 1 ELSE CHOOSE h \in on : \A h2 \in on : h <= h2

(* --------------------------- event checks ------------------------------- *)
\* _check_button (menu.py), _check (Menu.py, BetterNavigator.py)
check_button(c, ev, msg) ==
    IF c.cls = "BetterNavigator"
    THEN ev.msg = msg /\ ev.user = "interactor" /\ ev.emoji \in all_buttons
    ELSE ~IsBot(ev.user) /\ ev.msg = msg /\ IsInteractor(ev.user)
         /\ ev.emoji \in all_buttons

\* _check_selector (menu.py)
check_selector(c, ev, msg) ==
    ~IsBot(ev.user) /\ ev.msg = msg /\ IsInteractor(ev.user)
    /\ ev.emoji \in SeqSet(selector_list)

\* the check each wait_for task was created with
Accepts(c, t, ev, msg) ==
    CASE t = "add" -> ev.kind = "add" /\ check_button(c, ev, msg)
      [] t = "rem" -> ev.kind = "remove" /\ check_button(c, ev, msg)
      [] t = "msg" -> ev.kind = "message" /\ ev.ok
      [] t = "aux" -> ev.kind = "add" /\ ev.ok
      [] t = "sel" -> ev.kind = "add" /\ check_selector(c, ev, msg)

\* the tasks one iteration of the loop creates
TaskCreated(c, t) ==
    CASE t \in {"add", "rem"} -> TRUE
      [] t = "msg" -> c.input
      [] t = "aux" -> c.cls = "menu" /\ c.reaction_input
      [] t = "sel" -> c.cls = "menu" /\ c.selectors

NewTasks(c) ==
    [t \in TaskNames |->
        [st |-> IF TaskCreated(c, t) THEN "pending" ELSE "none", ev |-> NoEvent]]

\* a loop that leaves its pending waits alone
KeepPending(ts) == ts

\* `for task in pending: task.cancel()` and the finally clause
CancelPending(ts) ==
    [t \in TaskNames |->
        IF ts[t].st = "pending" THEN [st |-> "cancelled", ev |-> NoEvent] ELSE ts[t]]

(* ------------------------ how a coroutine ends -------------------------- *)
\* the finally clause cancels the tasks; the frame keeps its result
Finish(fr, r) ==
    [fr EXCEPT !.pc = "done", !.res = r, !.tasks = CancelPending(@), !.new = FALSE,
               !.tgt = 0, !.content = NoContent, !.sym = "none", !.grp = 0, !.k = 0]

Return(fr) == Finish(fr, [NoRes EXCEPT !.tag = "returned"])

Raise(fr, exc) == Finish(fr, [NoRes EXCEPT !.tag = "raise", !.exc = exc])

\* `return (payload, self.current_page)`; BetterNavigator.start returns the payload
ReturnPair(fr, n, pgs) ==
    IF cfg.cls = "BetterNavigator"
    THEN Finish(fr, [NoRes EXCEPT !.tag = "payload", !.ev = fr.payload])
    ELSE IF current_page(pgs, n) = 0 THEN Raise(fr, "IndexError")
    ELSE Finish(fr, [NoRes EXCEPT !.tag = "pair", !.ev = fr.payload,
                                  !.page = current_page(pgs, n)])

\* `while self._running:` followed by the creation of the iteration's tasks
LoopTop(fr, run) ==
    IF run
    THEN [fr EXCEPT !.pc = "waiting", !.tasks = NewTasks(cfg), !.payload = NoEvent,
                    !.wtask = "none", !.ret = "none", !.tgt = 0,
                    !.content = NoContent, !.sym = "none", !.grp = 0, !.k = 0]
    ELSE Return(fr)

\* menu.py lines 474-481: what display does after the button's action returned
PostButton(fr, n, pgs) ==
    IF cfg.reaction_input THEN ReturnPair(fr, n, pgs)
    ELSE IF ~cfg.selectors THEN Raise(fr, "TypeError")       \* `in None`
    ELSE IF fr.payload.emoji \in SeqSet(selector_list) THEN ReturnPair(fr, n, pgs)
    ELSE Raise(fr, "NameError")                              \* `message` is unbound

\* where control goes when an action awaited by the loop, or by a caller, returns
ActionReturn(fr, run, n, pgs) ==
    CASE fr.ret = "button" ->
            IF cfg.cls = "menu" THEN PostButton(fr, n, pgs) ELSE LoopTop(fr, run)
      [] OTHER -> Return(fr)      \* "caller", and "timeout" (the except clause)

\* stop(), from `if self.remove_reactions_after:` on
StopClearPart(fr, msg, run, n, pgs) ==
    IF cfg.remove_reactions_after
    THEN IF msg = 0 THEN Raise(fr, "AttributeError")
         ELSE [fr EXCEPT !.pc = "stop_clear", !.tgt = msg]
    ELSE ActionReturn(fr, run, n, pgs)

\* stop(), from its first line (the caller sets _running to False)
StopEntry(fr, ret, msg, n, pgs) ==
    LET f1 == [fr EXCEPT !.ret = ret]
    IN  IF cfg.remove_message_after
        THEN IF msg = 0 THEN Raise(f1, "AttributeError")
             ELSE [f1 EXCEPT !.pc = "stop_delete", !.tgt = msg]
        ELSE StopClearPart(f1, msg, FALSE, n, pgs)

\* the wrapper after func(self): edit the message with the current page
WrapperEdit(fr, msg, run, n, pgs) ==
    IF wrapper_edits(cfg.cls, run)
    THEN IF current_page(pgs, n) = 0 THEN Raise(fr, "IndexError")
         ELSE IF msg = 0 THEN Raise(fr, "AttributeError")
         ELSE [fr EXCEPT !.pc = "a_edit", !.tgt = msg, !.content = Render(cfg, pgs, n)]
    ELSE ActionReturn(fr, run, n, pgs)

\* a call of a decorated navigation action; arg is set_page's page_number
\* result: the frame and the new current_page_number
CallAction(fr, name, arg, ret, msg, run, n, pgs) ==
    LET f1 == [fr EXCEPT !.ret = ret]
        t  == total_pages(pgs)
    IN  IF update_message(cfg.cls) = "None"
        THEN [f |-> Raise(f1, "TypeError"), n |-> n]         \* None is not callable
        ELSE IF name = "set_page"
        THEN IF ~wrapper_takes_args(cfg.cls)
             THEN [f |-> Raise(f1, "TypeError"), n |-> n]
             ELSE IF ~set_page_ok(arg, t)
             THEN [f |-> Raise(f1, "ValueError"), n |-> n]
             ELSE [f |-> WrapperEdit(f1, msg, run, arg, pgs), n |-> arg]
        ELSE [f |-> WrapperEdit(f1, msg, run, NavBody(name, n, t), pgs),
              n |-> NavBody(name, n, t)]

\* lines 462-488 of menu.py, 201-217 of Menu.py: the winner's payload is applied
Dispatch(fr, msg, run, n, pgs) ==
    LET ev == fr.payload
    IN  IF ev.kind = "message"
        THEN [f |-> ReturnPair(fr, n, pgs), n |-> n, run |-> run]
        ELSE IF ev.emoji \in all_buttons
        THEN IF ev.emoji \in SeqSet(buttons_general)
             THEN [f |-> StopEntry(fr, "button", msg, n, pgs), n |-> n, run |-> FALSE]
             ELSE LET r == CallAction(fr, ev.emoji, 0, "button", msg, run, n, pgs)
                  IN  [f |-> r.f, n |-> r.n, run |-> run]
        ELSE \* KeyError: pass
             IF cfg.cls = "menu"
             THEN [f |-> PostButton(fr, n, pgs), n |-> n, run |-> run]
             ELSE [f |-> LoopTop(fr, run), n |-> n, run |-> run]

\* `await self.message.add_reaction(symbol)` is issued
ReactIssue(fr, g, k, msg) ==
    [fr EXCEPT !.pc = "d_react", !.grp = g, !.k = k, !.sym = GroupSyms(g)[k],
               !.tgt = msg, !.content = NoContent]

\* after the send or edit: the first control, or straight into the loop
AfterRender(fr, msg, pgs) ==
    LET g == FirstGroup(cfg, pgs, 1)
    IN  IF g > NGroups THEN LoopTop(fr, TRUE) ELSE ReactIssue(fr, g, 1, msg)

\* after a control was attached: the next one, or `self._running = True` and the loop
NextReact(fr, msg, pgs) ==
    IF fr.k < Len(GroupSyms(fr.grp))
    THEN ReactIssue(fr, fr.grp, fr.k + 1, msg)
    ELSE LET g == FirstGroup(cfg, pgs, fr.grp + 1)
         IN  IF g > NGroups THEN LoopTop(fr, TRUE) ELSE ReactIssue(fr, g, 1, msg)

(* ----------------------------- transport -------------------------------- *)
\* discord.NotFound, discord.Forbidden
TransportErrors == {"NotFound", "Forbidden"}

\* the outcomes of edit, delete, clear_reactions, add_reaction on a handle
Outcomes(h) == IF live[h] THEN {"ok", "Forbidden"} ELSE {"NotFound"}

\* a former message matters only while a call on it is in flight
Norm(lv, frs) == [lv EXCEPT ![Former] = @ /\ \E c \in Calls : frs[c].tgt = Former]

\* what a completed call op on handle h with outcome o does to the channel;
\* the content is tracked for the bound message
Transport(op, h, o, fr) ==
    LET hit == o = "ok" /\ h = message IN
    /\ live' = Norm(IF o = "ok" /\ op = "delete" THEN [live EXCEPT ![h] = FALSE]
                    ELSE live, frames')
    /\ shown' = CASE hit /\ op = "edit"   -> fr.content
                  [] hit /\ op = "delete" -> NoContent
                  [] OTHER                -> shown

\* a new message was sent: what the other coroutines hold now refers to a former one
Rebind(fr) ==
    LET old(e) == IF e.msg = Bound THEN [e EXCEPT !.msg = Former] ELSE e IN
    [fr EXCEPT !.tgt = IF @ = Bound THEN Former ELSE @,
               !.payload = old(@),
               !.tasks = [t \in TaskNames |-> [@[t] EXCEPT !.ev = old(@)]]]

NewFrame(kind) == [IdleFrame EXCEPT !.kind = kind]

\* display is about to send or edit: evaluating the current page may raise
Rendering(fr, pc, tgt, content) ==
    IF content.page = 0 THEN Raise(fr, "IndexError")
    ELSE [fr EXCEPT !.pc = pc, !.tgt = tgt, !.content = content]

\* frame c goes on as f; a coroutine that ended hands its result to `last`
Commit(c, f) ==
    /\ frames' = [frames EXCEPT ![c] = IF f.pc = "done" THEN IdleFrame ELSE f]
    /\ last' = IF f.pc = "done" THEN f ELSE IdleFrame
    /\ stopped' = CASE f.kind = "display" -> FALSE
                    [] f.kind = "stop" /\ f.pc = "done" /\ f.res.tag = "returned" -> TRUE
                    [] OTHER -> stopped

(* ------------------------------- Init ----------------------------------- *)
\* the keyword defaults of __init__ (menu.py 137-147)
Defaults(cls) ==
    [cls |-> cls, remove_message_after |-> FALSE, remove_reactions_after |-> TRUE,
     input |-> FALSE, reaction_input |-> FALSE, selectors |-> FALSE,
     show_buttons |-> TRUE, show_general_buttons |-> TRUE, show_page_number |-> TRUE,
     overlap |-> FALSE, burst |-> FALSE]

AllConfigs ==
    [cls : Classes, remove_message_after : BOOLEAN, remove_reactions_after : BOOLEAN,
     input : BOOLEAN, reaction_input : BOOLEAN, selectors : BOOLEAN,
     show_buttons : BOOLEAN, show_general_buttons : BOOLEAN,
     show_page_number : {TRUE}, overlap : BOOLEAN, burst : BOOLEAN]

\* options a class does not have keep their default
HasOptions(c) ==
    /\ c.cls # "menu" => ~c.reaction_input /\ ~c.selectors /\ c.show_general_buttons
    /\ c.cls = "BetterNavigator" => c.show_buttons
    /\ ~c.show_buttons => c.show_general_buttons

SameTeardown(c, d) ==
    /\ c.remove_message_after = d.remove_message_after
    /\ c.remove_reactions_after = d.remove_reactions_after

SameInputs(c, d) ==
    /\ c.input = d.input
    /\ c.reaction_input = d.reaction_input
    /\ c.selectors = d.selectors

SameButtons(c, d) ==
    /\ c.show_buttons = d.show_buttons
    /\ c.show_general_buttons = d.show_general_buttons

SameHabits(c, d) == c.overlap = d.overlap /\ c.burst = d.burst

\* overlapping display calls are explored on the newest class, bursts of events
\* on the two classes named Menu
Habits(c) ==
    /\ c.overlap => c.cls = "menu" /\ ~c.burst
    /\ c.burst => c.cls # "BetterNavigator"

(***************************************************************************)
(* The sessions explored, as <<options, number of pages>>:                 *)
(*  - every combination of the teardown flags and of the input options,    *)
(*    on two pages with the default buttons;                               *)
(*  - every combination of the button options and every number of pages    *)
(*    up to MaxPages, with the other options at their defaults;            *)
(*  - with the default options on two pages, a caller that calls display   *)
(*    while a display call is in progress (overlap), and a gateway that    *)
(*    delivers up to MaxRaceEvents events before the loop resumes (burst). *)
(***************************************************************************)
Sessions ==
    {s \in AllConfigs \X (1..MaxPages) :
        LET c == s[1]
            d == Defaults(c.cls)
        IN  /\ HasOptions(c)
            /\ Habits(c)
            /\ \/ SameButtons(c, d) /\ SameHabits(c, d) /\ s[2] = 2
               \/ SameTeardown(c, d) /\ SameInputs(c, d) /\ SameHabits(c, d)
               \/ /\ SameTeardown(c, d) /\ SameInputs(c, d) /\ SameButtons(c, d)
                  /\ s[2] = 2}

\* the state __init__ leaves: page 1, not running, no message
Init ==
    /\ \E s \in Sessions : cfg = s[1] /\ pages = [i \in 1..s[2] |-> i]
    /\ current_page_number = 1
    /\ running = FALSE
    /\ message = 0
    /\ live = [h \in Handles |-> FALSE]
    /\ shown = NoContent
    /\ frames = [c \in Calls |-> IdleFrame]
    /\ stopped = FALSE
    /\ last = IdleFrame

(* ----------------------------- scheduling ------------------------------- *)
(***************************************************************************)
(* The schedules explored: a coroutine that was woken up runs on, through  *)
(* its transport calls, until it waits in a race or ends, before another   *)
(* one is woken up; the coroutines suspended in a race stay suspended      *)
(* meanwhile.                                                              *)
(***************************************************************************)
Turn(c) == \A d \in Calls \ {c} : frames[d].pc \in {"idle", "waiting"}

(* ------------------------------ display --------------------------------- *)
\* the frame a new display call runs in: a display call is made while another
\* is in progress only in an overlap session
DisplayFrame(c) ==
    /\ frames[c].pc = "idle"
    /\ c = "caller" => frames["loop"].pc # "idle"
    /\ \A d \in Calls : frames[d].kind = "display" => cfg.overlap

\* a display whose entry test lets every call through
display_entry_unchecked(msg, new) == TRUE

\* `if not self.message and not new: raise RuntimeError(...)`
display_entry_ok(msg, new) == ~(msg = 0 /\ ~new)

\* a display that ignores reset_position
display_position_kept(reset, n) == n

\* `if reset_position: self.current_page_number = 1`
display_position(reset, n) == IF reset THEN 1 ELSE n

\* display(new, reset_position) / start(channel) up to its first await
CallDisplay(c, new, reset) ==
    /\ DisplayFrame(c)
    /\ Turn(c)
    /\ cfg.cls = "BetterNavigator" => new /\ ~reset
    /\ LET fr == [NewFrame("display") EXCEPT !.new = new]
           n  == display_position(reset, current_page_number)
       IN  IF ~display_entry_ok(message, new)
           THEN /\ Commit(c, Raise(fr, "RuntimeError"))
                /\ UNCHANGED current_page_number
           ELSE /\ current_page_number' = n
                /\ Commit(c,
                      IF new
                      THEN Rendering(fr, "d_send", 0, RenderStart(cfg, pages, n))
                      ELSE IF cfg.cls = "menu"
                      THEN [fr EXCEPT !.pc = "d_clear", !.tgt = message]
                      ELSE Rendering(fr, "d_edit", message, Render(cfg, pages, n)))
    /\ UNCHANGED <<cfg, pages, running, message, live, shown>>

\* menu.py 396-401: the outcome of `await self.message.clear_reactions()`
\* a display that lets the failure of clear_reactions leave the call
display_clear_propagates(o) == IF o = "ok" THEN "edit" ELSE "raise"

\* a display whose except clause catches every failure of clear_reactions
display_clear_catches_all(o) == IF o = "ok" THEN "edit" ELSE "delete"

\* `try: await self.message.clear_reactions()` / `except discord.Forbidden:`
display_clear_next(o) ==
    CASE o = "ok"        -> "edit"
      [] o = "Forbidden" -> "delete"
      [] OTHER           -> "raise"

\* clear_reactions of display(new=False) completed with outcome o
DisplayClearGot(c, o) ==
    /\ frames[c].pc = "d_clear"
    /\ Turn(c)
    /\ o \in Outcomes(frames[c].tgt)
    /\ LET fr == frames[c] IN
          /\ Commit(c,
                CASE display_clear_next(o) = "edit" ->
                        Rendering(fr, "d_edit", message,
                                  Render(cfg, pages, current_page_number))
                  [] display_clear_next(o) = "delete" ->
                        [fr EXCEPT !.pc = "d_delete", !.tgt = message]
                  [] OTHER -> Raise(fr, o))
          /\ Transport("clear", fr.tgt, o, fr)
    /\ UNCHANGED <<cfg, pages, current_page_number, running, message>>

DisplayClear(c) == \E o \in {"ok"} \cup TransportErrors : DisplayClearGot(c, o)

\* menu.py 400-405: the fallback delete, then `new = True` and the send
DisplayDeleteGot(c, o) ==
    /\ frames[c].pc = "d_delete"
    /\ Turn(c)
    /\ o \in Outcomes(frames[c].tgt)
    /\ LET fr == frames[c] IN
          /\ Commit(c,
                IF o = "ok"
                THEN Rendering([fr EXCEPT !.new = TRUE], "d_send", 0,
                               Render(cfg, pages, current_page_number))
                ELSE Raise(fr, o))
          /\ Transport("delete", fr.tgt, o, fr)
    /\ UNCHANGED <<cfg, pages, current_page_number, running, message>>

DisplayDelete(c) == \E o \in {"ok"} \cup TransportErrors : DisplayDeleteGot(c, o)

\* `self.message = await self.channel.send(...)`, then the first control or the loop
DisplaySendGot(c, o) ==
    /\ frames[c].pc = "d_send"
    /\ Turn(c)
    /\ LET fr == frames[c] IN
          IF o = "ok"
          THEN LET f2 == AfterRender(fr, Bound, pages) IN
               /\ frames' = [d \in Calls |-> IF d = c THEN f2 ELSE Rebind(frames[d])]
               /\ last' = IdleFrame
               /\ stopped' = FALSE
               /\ message' = Bound
               /\ live' = Norm([h \in Handles |->
                                  IF h = Bound THEN TRUE
                                  ELSE IF \E d \in Calls : frames[d].tgt = Bound
                                       THEN live[Bound] ELSE live[Former]], frames')
               /\ shown' = fr.content
               /\ running' = IF f2.pc = "waiting" THEN TRUE ELSE running
          ELSE /\ Commit(c, Raise(fr, o))
               /\ UNCHANGED <<message, live, shown, running>>
    /\ UNCHANGED <<cfg, pages, current_page_number>>

DisplaySend(c) == \E o \in {"ok", "Forbidden"} : DisplaySendGot(c, o)

\* `await self.message.edit(...)` of display, then the first control or the loop
DisplayEdit(c) ==
    /\ frames[c].pc = "d_edit"
    /\ Turn(c)
    /\ LET fr == frames[c] IN
       \E o \in Outcomes(fr.tgt) :
          /\ IF o = "ok"
             THEN LET f2 == AfterRender(fr, message, pages) IN
                  /\ Commit(c, f2)
                  /\ running' = IF f2.pc = "waiting" THEN TRUE ELSE running
             ELSE /\ Commit(c, Raise(fr, o))
                  /\ UNCHANGED running
          /\ Transport("edit", fr.tgt, o, fr)
    /\ UNCHANGED <<cfg, pages, current_page_number, message>>

\* `await self.message.add_reaction(...)`: one control attached, then the next
DisplayReact(c) ==
    /\ frames[c].pc = "d_react"
    /\ Turn(c)
    /\ LET fr == frames[c] IN
       \E o \in Outcomes(fr.tgt) :
          /\ IF o = "ok"
             THEN LET f2 == NextReact(fr, message, pages) IN
                  /\ Commit(c, f2)
                  /\ running' = IF f2.pc = "waiting" THEN TRUE ELSE running
             ELSE /\ Commit(c, Raise(fr, o))
                  /\ UNCHANGED running
          /\ Transport("react", fr.tgt, o, fr)
    /\ UNCHANGED <<cfg, pages, current_page_number, message>>

(* --------------------------- the race ----------------------------------- *)
(***************************************************************************)
(* The events the gateway can deliver.  msg = 0 stands for any message     *)
(* other than the bound one; ok is the verdict of the caller's predicate   *)
(* on the event (input for messages, reaction_input for added reactions).  *)
(***************************************************************************)
Events(bound) ==
    {[kind |-> k, user |-> u, msg |-> m, emoji |-> e, ok |-> o] :
        k \in {"add", "remove"}, u \in Users, m \in {0, bound}, e \in Symbols,
        o \in BOOLEAN}
    \cup {[kind |-> "message", user |-> u, msg |-> 0, emoji |-> "none", ok |-> o] :
        u \in Users \ {"botInteractor"}, o \in BOOLEAN}

\* the reactions a caller's predicate is taken to accept: any reaction of the
\* interactor on the bound message, and the stop symbol or a foreign symbol from
\* a stranger or a bot on it, or from the interactor elsewhere
PredicateDomain(e) ==
    \/ e.kind = "message"
    \/ e.user = "interactor" /\ e.msg # 0
    \/ /\ e.emoji \in {"stop", "other"}
       /\ \/ e.user \in {"stranger", "bot"} /\ e.msg # 0
          \/ e.user = "interactor" /\ e.msg = 0

Deliverable(e) ==
    /\ e.msg # 0 => live[e.msg]
    /\ e.ok => /\ \/ e.kind = "message" /\ cfg.input
                  \/ e.kind = "add" /\ cfg.reaction_input
               /\ PredicateDomain(e)

Hears(c, t, e) ==
    /\ frames[c].pc = "waiting"
    /\ frames[c].tasks[t].st = "pending"
    /\ Accepts(cfg, t, e, message)

DoneTasks(fr) == {t \in TaskNames : fr.tasks[t].st = "done"}

\* the events that completed tasks of the frame's current race
RaceEvents(fr) == {fr.tasks[t].ev : t \in DoneTasks(fr)}

\* how many events the gateway delivers before a loop that heard one resumes
RaceBound == IF cfg.burst THEN MaxRaceEvents ELSE 1

\* bot.dispatch: every waiting future whose check passes gets the event
Event(e) ==
    /\ \E c \in Calls : frames[c].pc = "waiting"
    /\ \A c \in Calls : frames[c].pc \in {"idle", "waiting"}
    /\ Deliverable(e)
    /\ \E c \in Calls, t \in TaskNames : Hears(c, t, e)
    /\ \A c \in Calls :
          (\E t \in TaskNames : Hears(c, t, e)) =>
              Cardinality(RaceEvents(frames[c])) < RaceBound
    /\ frames' = [c \in Calls |->
          [frames[c] EXCEPT !.tasks = [t \in TaskNames |->
              IF Hears(c, t, e) THEN [st |-> "done", ev |-> e] ELSE @[t]]]]
    /\ last' = IdleFrame
    /\ UNCHANGED <<cfg, pages, current_page_number, running, message, live, shown,
                   stopped>>

\* done.pop(): some one of the completed tasks
Pop(fr) == DoneTasks(fr)

\* asyncio.wait returns with a completed task: cancel the pending, dispatch one
Resume(c) ==
    /\ frames[c].pc = "waiting"
    /\ Turn(c)
    /\ LET fr == frames[c] IN
       \E w \in Pop(fr) :
          LET f1 == [fr EXCEPT !.tasks = [CancelPending(@) EXCEPT ![w].st = "consumed"],
                               !.payload = fr.tasks[w].ev, !.wtask = w]
              r  == Dispatch(f1, message, running, current_page_number, pages)
          IN  /\ Commit(c, r.f)
              /\ current_page_number' = r.n
              /\ running' = r.run
    /\ UNCHANGED <<cfg, pages, message, live, shown>>

\* asyncio.wait returns with nothing done: TimeoutError, caught, `await self.stop()`
\* a loop whose timer may also expire on a race that has a completed wait
timed_out_anyway(done) == TRUE

\* `if len(done) == 0: raise asyncio.TimeoutError`, done being what this race's
\* asyncio.wait(tasks, timeout=self.timeout) returned
timed_out(done) == done = {}

Timeout(c) ==
    /\ frames[c].pc = "waiting"
    /\ Turn(c)
    /\ timed_out(DoneTasks(frames[c]))
    /\ LET f1 == [frames[c] EXCEPT !.tasks = CancelPending(@)]
       IN  Commit(c, StopEntry(f1, "timeout", message, current_page_number, pages))
    /\ running' = FALSE
    /\ UNCHANGED <<cfg, pages, current_page_number, message, live, shown>>

(* ------------------------- actions and stop ----------------------------- *)
\* the wrapper's `await self.message.edit(...)` completes
ActionEdit(c) ==
    /\ frames[c].pc = "a_edit"
    /\ Turn(c)
    /\ LET fr == frames[c] IN
       \E o \in Outcomes(fr.tgt) :
          /\ Commit(c, IF o = "ok"
                       THEN ActionReturn(fr, running, current_page_number, pages)
                       ELSE Raise(fr, o))
          /\ Transport("edit", fr.tgt, o, fr)
    /\ UNCHANGED <<cfg, pages, current_page_number, running, message>>

\* stop(): `await self.message.delete()` completes
StopDelete(c) ==
    /\ frames[c].pc = "stop_delete"
    /\ Turn(c)
    /\ LET fr == frames[c] IN
       \E o \in Outcomes(fr.tgt) :
          LET f1  == [fr EXCEPT !.ndel = @ + 1, !.delres = o]
              nxt == stop_delete_next(cfg.cls, o)
          IN  /\ Commit(c,
                    CASE nxt = "clear" ->
                            StopClearPart(f1, message, running, current_page_number, pages)
                      [] nxt = "return" ->
                            ActionReturn(f1, running, current_page_number, pages)
                      [] OTHER -> Raise(f1, o))
              /\ Transport("delete", fr.tgt, o, fr)
    /\ UNCHANGED <<cfg, pages, current_page_number, running, message>>

\* stop(): `await self.message.clear_reactions()` completes
StopClear(c) ==
    /\ frames[c].pc = "stop_clear"
    /\ Turn(c)
    /\ LET fr == frames[c] IN
       \E o \in Outcomes(fr.tgt) :
          LET f1  == [fr EXCEPT !.nclr = @ + 1]
              nxt == stop_clear_next(cfg.cls, o)
          IN  /\ Commit(c,
                    IF nxt = "return"
                    THEN ActionReturn(f1, running, current_page_number, pages)
                    ELSE Raise(f1, o))
              /\ Transport("clear", fr.tgt, o, fr)
    /\ UNCHANGED <<cfg, pages, current_page_number, running, message>>

(* ------------------------ calls by the caller --------------------------- *)
\* the caller makes its other calls while no display call is between awaits of
\* its set-up or of a dispatch: the loop is suspended in the race, or not running
CallerMayCall(c) ==
    /\ c = "caller"
    /\ frames[c].pc = "idle"
    /\ frames["loop"].pc \in {"idle", "waiting"}

\* await menu.stop()
CallStop(c) ==
    /\ CallerMayCall(c)
    /\ Commit(c, StopEntry(NewFrame("stop"), "caller", message, current_page_number,
                           pages))
    /\ running' = FALSE
    /\ UNCHANGED <<cfg, pages, current_page_number, message, live, shown>>

\* await menu.first_page() / previous_page() / next_page() / last_page()
CallNav(c, name) ==
    /\ CallerMayCall(c)
    /\ LET r == CallAction(NewFrame(name), name, 0, "caller", message, running,
                           current_page_number, pages)
       IN  /\ Commit(c, r.f)
           /\ current_page_number' = r.n
    /\ UNCHANGED <<cfg, pages, running, message, live, shown>>

\* await menu.set_page(page_number)
CallSetPage(c, p) ==
    /\ CallerMayCall(c)
    /\ LET r == CallAction(NewFrame("set_page"), "set_page", p, "caller", message,
                           running, current_page_number, pages)
       IN  /\ Commit(c, r.f)
           /\ current_page_number' = r.n
    /\ UNCHANGED <<cfg, pages, running, message, live, shown>>

\* await menu.add_page(page, position); pos = 0 is "no position given"
CallAddPage(c, page, pos) ==
    /\ CallerMayCall(c)
    /\ cfg.cls = "menu"
    /\ Len(pages) < MaxPages
    /\ LET fr == [NewFrame("add_page") EXCEPT !.ret = "caller"] IN
       IF update_message(cfg.cls) = "None" \/ ~wrapper_takes_args(cfg.cls)
       THEN /\ Commit(c, Raise(fr, "TypeError"))
            /\ UNCHANGED pages
       ELSE /\ pages' = add_page(pages, page, pos)
            /\ Commit(c, WrapperEdit(fr, message, running, current_page_number, pages'))
    /\ UNCHANGED <<cfg, current_page_number, running, message, live, shown>>

(* --------------------------- environment -------------------------------- *)
\* the message is deleted by somebody else
ExternalDelete(h) ==
    /\ live[h]
    /\ UNCHANGED frames
    /\ last' = IdleFrame
    /\ Transport("delete", h, "ok", IdleFrame)
    /\ UNCHANGED <<cfg, pages, current_page_number, running, message, stopped>>

(* ------------------------------- Next ----------------------------------- *)
Next ==
    \/ \E c \in Calls, new \in BOOLEAN, reset \in BOOLEAN : CallDisplay(c, new, reset)
    \/ \E c \in Calls : DisplayClear(c)
    \/ \E c \in Calls : DisplayDelete(c)
    \/ \E c \in Calls : DisplaySend(c)
    \/ \E c \in Calls : DisplayEdit(c)
    \/ \E c \in Calls : DisplayReact(c)
    \/ \E e \in Events(message) : Event(e)
    \/ \E c \in Calls : Resume(c)
    \/ \E c \in Calls : Timeout(c)
    \/ \E c \in Calls : ActionEdit(c)
    \/ \E c \in Calls : StopDelete(c)
    \/ \E c \in Calls : StopClear(c)
    \/ \E c \in Calls : CallStop(c)
    \/ \E c \in Calls, name \in SeqSet(buttons_navigation) : CallNav(c, name)
    \/ \E c \in Calls, p \in 0..(MaxPages + 1) : CallSetPage(c, p)
    \/ \E c \in Calls, pos \in 0..MaxPages : CallAddPage(c, MaxPages + 1, pos)
    \/ \E h \in Handles : ExternalDelete(h)

Spec == Init /\ [][Next]_vars

(* --------------------------- construction ------------------------------- *)
(***************************************************************************)
(* The constructor, as a specification of its own.  Here a page is the     *)
(* record of what the length check looks at: its class (Page or            *)
(* EmbeddedPage) and its length in characters (len(page)); the session's   *)
(* other fields have the values __init__ gives them.  Menu.py and          *)
(* BetterNavigator.py end __init__ with the length check, which walks the  *)
(* pages with current_page_number as its cursor; menu.py's __init__ has no *)
(* such call.                                                              *)
(***************************************************************************)
\* `elif len(self.current_page) > 2000:`
MaxMessageSize == 2000

PageSizes == {1, MaxMessageSize, MaxMessageSize + 1}

\* the pages set_pages leaves in self.pages: Page or EmbeddedPage objects
GivenPages ==
    {[kind |-> "Page", len |-> s] : s \in PageSizes}
    \cup {[kind |-> "EmbeddedPage", len |-> 1]}

\* whether __init__ calls the length check
checks_lengths(cls) == cls # "menu"

\* `for i in range(1, self.total_pages):`
check_range(t) == 1..(t - 1)

\* `raise ValueError(...)`; BetterNavigator.py names `ValueErorr`
length_error(cls) == IF cls = "BetterNavigator" THEN "NameError" ELSE "ValueError"

\* a length check whose embedded branch stores the page's rendered form in the
\* page's place and finds it within the limits
check_embedded_replaces(pgs, n) ==
    [exc |-> "none", pages |-> [pgs EXCEPT ![n] = [kind |-> "Embed", len |-> @.len]]]

\* the branch for an EmbeddedPage: `self.current_page = page.embed`, then
\* `len(embed) > 6000 or len(embed.description) > 2048`.  Neither `page` nor
\* `embed` is a name bound in the method or the module: evaluating `page.embed`
\* raises NameError before anything is assigned
check_embedded(pgs, n) == [exc |-> "NameError", pages |-> pgs]

InitConstruction ==
    /\ cfg \in {Defaults(cls) : cls \in Classes}
    /\ pages \in UNION {[1..n -> GivenPages] : n \in 1..MaxPages}
    /\ current_page_number = 1
    /\ running = FALSE
    /\ message = 0
    /\ live = [h \in Handles |-> FALSE]
    /\ shown = NoContent
    /\ frames = [c \in Calls |->
                   IF c = "caller"
                   THEN [NewFrame("__init__") EXCEPT !.pc = "checking", !.k = 1]
                   ELSE IdleFrame]
    /\ stopped = FALSE
    /\ last = IdleFrame

\* one iteration of the length check's loop
CheckLength ==
    LET fr == frames["caller"]
        pg == current_page(pages, current_page_number)
        e  == check_embedded(pages, current_page_number)
    IN
    /\ fr.pc = "checking"
    /\ checks_lengths(cfg.cls)
    /\ fr.k \in check_range(total_pages(pages))
    /\ pages' = IF pg.kind = "EmbeddedPage" THEN e.pages ELSE pages
    /\ LET exc == CASE pg.kind = "EmbeddedPage" -> e.exc
                    [] pg.len > MaxMessageSize  -> length_error(cfg.cls)
                    [] OTHER                    -> "none"
       IN  IF exc # "none"
           THEN /\ Commit("caller", Raise(fr, exc))
                /\ UNCHANGED current_page_number
           ELSE /\ Commit("caller", [fr EXCEPT !.k = @ + 1])
                /\ current_page_number' = current_page_number + 1
    /\ UNCHANGED <<cfg, running, message, live, shown>>

\* the loop is exhausted (or there is none): __init__ returns the session
Constructed ==
    LET fr == frames["caller"] IN
    /\ fr.pc = "checking"
    /\ checks_lengths(cfg.cls) => fr.k \notin check_range(total_pages(pages))
    /\ current_page_number' = 1
    /\ Commit("caller", Return(fr))
    /\ UNCHANGED <<cfg, pages, running, message, live, shown>>

NextConstruction == CheckLength \/ Constructed

Construction == InitConstruction /\ [][NextConstruction]_vars

(* ------------------------------ claims ---------------------------------- *)

\* the frame of coroutine c after the step: its result when the step ended it
After(c) == IF frames'[c].pc = "idle" THEN last' ELSE frames'[c]

\* the step resumes the loop c from its race with a completed wait
Resumed(c) == frames[c].pc = "waiting" /\ After(c).wtask # "none"

\* the calls in flight and the call that has just ended
Coroutines == {frames[c] : c \in Calls} \cup {last}

\* C1: after any sequence of first-page, previous-page, next-page, last-page,
\* set-page, addPage and display calls, 1 <= currentIndex <= totalPages.
C1_IndexInRange ==
    1 <= current_page_number /\ current_page_number <= total_pages(pages)

\* previous-page was called on page 1 of a displayed session and wrapped around
C1_Witness ==
    /\ cfg.cls = "Menu"
    /\ last.kind = "prev" /\ last.res.tag = "returned"
    /\ total_pages(pages) = MaxPages
    /\ current_page_number = MaxPages

\* C2: when a navigation reaction wins a race the action is invoked and the loop
\* goes on to a new race: on a session that shows its navigation controls and that
\* nobody stopped, display does not end on a navigation win, neither by returning
\* nor by raising anything else than the re-render's own transport failure.
C2_NavigationWinContinues ==
    ~ /\ cfg.cls \in {"menu", "Menu"}
      /\ GroupOn(cfg, pages, 2)
      /\ last.pc = "done" /\ last.kind = "display"
      /\ last.wtask \in {"add", "rem"}
      /\ last.payload.emoji \in SeqSet(buttons_navigation)
      /\ running
      /\ last.res.exc \notin TransportErrors

\* C3: when a free-form message, a selector reaction or an auxiliary reaction wins
\* a race, display returns the pair (the input, the page current at the match),
\* running is left as it was, stop() is not invoked and no teardown call is issued.
C3_InputWinReturnsPair ==
    [][\A c \in Calls :
          (/\ cfg.cls \in {"menu", "Menu"}
           /\ Resumed(c)
           /\ After(c).wtask \in {"msg", "sel", "aux"})
          => /\ After(c).pc = "done"
             /\ After(c).res.tag = "pair"
             /\ After(c).res.ev = After(c).payload
             /\ After(c).res.page = current_page(pages, current_page_number)
             /\ running' = running
             /\ After(c).ndel = 0 /\ After(c).nclr = 0]_vars

\* C4: when a race times out the loop invokes stop(), display returns nothing with
\* running = false, and with removeMessageAfter exactly one delete call was issued.
C4_TimeoutStopsQuietly ==
    (/\ cfg.cls = "menu"
     /\ last.pc = "done" /\ last.kind = "display" /\ last.ret = "timeout")
    => /\ last.res.tag = "returned"
       /\ ~running
       /\ cfg.remove_message_after => last.ndel = 1

C6_OneLoopPerMessage ==
    ~ \E c, d \in Calls :
         /\ c # d
         /\ frames[c].pc = "waiting"
         /\ frames[d].pc = "waiting" /\ ~frames[d].new

\* C7: stop() on a displayed session never propagates a transport failure: whatever
\* the flags and the outcomes of delete and clearReactions, it returns normally
\* with running = false.
C7_StopSwallowsFailures ==
    (last.pc = "done" /\ last.kind = "stop" /\ message # 0)
    => last.res.tag = "returned" /\ ~running

\* C8: stop() issues the delete only with removeMessageAfter, exactly once on a
\* bound message, and issues clearReactions only with removeMessageAfter false
\* and removeReactionsAfter true.
C8_TeardownFollowsFlags ==
    cfg.cls \in {"menu", "BetterNavigator"} =>
       /\ \A c \in Calls : frames[c].pc = "stop_delete" => cfg.remove_message_after
       /\ \A c \in Calls :
             frames[c].pc = "stop_clear" =>
                ~cfg.remove_message_after /\ cfg.remove_reactions_after
       /\ (last.pc = "done" /\ last.kind = "stop" /\ message # 0
           /\ cfg.remove_message_after) => last.ndel = 1

\* C9: the teardown steps are independent: a stop() whose delete failed with
\* Forbidden attempts the reaction-clear exactly when a stop() whose delete
\* succeeded attempts it under the same flags.
C9_ClearIndependentOfDelete ==
    \A f \in Coroutines :
        (cfg.cls \in {"menu", "Menu"} /\ f.delres = "Forbidden")
        => ((f.pc = "stop_clear" \/ f.nclr > 0)
            <=> (cfg.remove_reactions_after
                 /\ stop_delete_next(cfg.cls, "ok") = "clear"))

\* C10: stop() is idempotent: a stop() called after a stop() that returned leaves
\* running false, leaves currentIndex, pages and the bound message as they were,
\* and does not raise, whether or not the first one deleted the message.
C10_StopIdempotent ==
    [][(/\ cfg.cls \in {"menu", "Menu"}
        /\ stopped
        /\ frames'["caller"].kind = "stop" \/ last'.kind = "stop")
       => /\ UNCHANGED <<current_page_number, pages, message>>
          /\ ~running'
          /\ last'.res.tag # "raise"]_vars

\* C11: when the stop control wins a race, stop() runs and display returns nothing
\* (no result pair, no error) with running = false, having issued the teardown
\* calls of a timeout: with removeMessageAfter exactly one delete.
C11_StopWinReturnsNothing ==
    (/\ cfg.cls = "menu"
     /\ last.pc = "done" /\ last.kind = "display"
     /\ last.wtask \in {"add", "rem"}
     /\ last.payload.emoji \in SeqSet(buttons_general)
     /\ last.res.exc \notin TransportErrors)
    => /\ last.res.tag = "returned"
       /\ ~running
       /\ cfg.remove_message_after => last.ndel = 1

\* C12: for every totalPages >= 1 and currentIndex in [1, totalPages], a call of
\* previous-page yields currentIndex - 1, or totalPages when currentIndex was 1;
\* next-page yields currentIndex + 1, or 1 when currentIndex was totalPages;
\* first-page yields 1; last-page yields totalPages.
C12_NavigationArithmetic ==
    [][\A c \in Calls :
          LET n == current_page_number
              t == total_pages(pages)
          IN  (cfg.cls \in {"menu", "BetterNavigator"} /\ 1 <= n /\ n <= t) =>
                 /\ CallNav(c, "prev") =>
                       current_page_number' = IF n = 1 THEN t ELSE n - 1
                 /\ CallNav(c, "next") =>
                       current_page_number' = IF n = t THEN 1 ELSE n + 1
                 /\ CallNav(c, "first") => current_page_number' = 1
                 /\ CallNav(c, "last") => current_page_number' = t]_vars

\* C13: set-page(p) with p < 1 or p > totalPages fails with the out-of-range
\* error and leaves currentIndex and running unchanged; with p in
\* [1, totalPages] it sets currentIndex = p.
C13_SetPageRange ==
    [][\A c \in Calls, p \in 0..(MaxPages + 1) :
          (cfg.cls \in {"menu", "Menu"} /\ CallSetPage(c, p)) =>
             IF 1 <= p /\ p <= total_pages(pages)
             THEN current_page_number' = p
             ELSE /\ After(c).res.exc = "ValueError"
                  /\ UNCHANGED <<current_page_number, running>>]_vars

C15_OnePageNoNavigation ==
    (cfg.cls = "menu" /\ total_pages(pages) = 1) =>
       \A f \in Coroutines :
          /\ ~(f.pc = "d_react" /\ f.sym \in SeqSet(buttons_navigation))
          /\ \A t \in {"add", "rem"} :
                f.tasks[t].st \in {"done", "consumed"}
                => f.tasks[t].ev.emoji \notin SeqSet(buttons_navigation)

\* C16: a reaction is dispatched as control input only if its user is in
\* interactors, is not a bot identity, its message is the currently bound message
\* and its symbol is in the button set: whenever the loop resumes and runs a
\* registry action or changes currentIndex, the reaction it took from the race
\* meets all four conditions.
C16_ControlInputIsChecked ==
    [][\A c \in Calls :
          (/\ cfg.cls \in {"menu", "Menu"}
           /\ Resumed(c)
           /\ After(c).payload.kind \in {"add", "remove"}
           /\ \/ After(c).ret = "button"
              \/ current_page_number' # current_page_number)
          => LET ev == After(c).payload
             IN  /\ IsInteractor(ev.user)
                 /\ ~IsBot(ev.user)
                 /\ ev.msg = message
                 /\ ev.emoji \in all_buttons]_vars

\* C17: a free-form message or an auxiliary reaction wins a race and ends display
\* only if its author is a permitted interactor and is not a bot identity.
C17_InputAuthorIsChecked ==
    (/\ cfg.cls = "menu"
     /\ last.pc = "done" /\ last.kind = "display"
     /\ last.wtask \in {"msg", "aux"})
    => /\ IsInteractor(last.payload.user)
       /\ ~IsBot(last.payload.user)

\* C18: addPage(page, p) with 1 <= p <= totalPages on a displayed session makes
\* the new page the p-th page, keeps the order of the existing pages, raises
\* totalPages by exactly 1 and issues one edit of the bound message.
C18_AddPageAtPosition ==
    [][\A c \in Calls, p \in 1..MaxPages :
          LET t == total_pages(pages)
              x == MaxPages + 1
          IN  (/\ cfg.cls = "menu"
               /\ message # 0 /\ live[message] /\ running
               /\ p <= t
               /\ CallAddPage(c, x, p))
              => /\ pages' = SubSeq(pages, 1, p - 1) \o <<x>> \o SubSeq(pages, p, t)
                 /\ total_pages(pages') = t + 1
                 /\ After(c).pc = "a_edit" /\ After(c).tgt = message]_vars

\* C19: addPage(page) without a position appends: the new page becomes the last
\* page and every existing page keeps its index.
C19_AddPageAppends ==
    [][\A c \in Calls :
          LET x == MaxPages + 1
          IN  (cfg.cls = "menu" /\ CallAddPage(c, x, 0)) => pages' = Append(pages, x)]_vars

\* C20: when the bound message no longer exists, an addPage call, and a display
\* call whose loop dispatched a navigation action, end by raising NotFound to
\* their caller.
C20_RenderNotFoundPropagates ==
    (/\ cfg.cls = "menu"
     /\ message # 0 /\ ~live[message]
     /\ last.pc = "done"
     /\ \/ last.kind = "add_page"
        \/ /\ last.kind = "display" /\ last.ret = "button"
           /\ last.payload.emoji \in SeqSet(buttons_navigation))
    => last.res = [NoRes EXCEPT !.tag = "raise", !.exc = "NotFound"]

C22_OversizedPageRejected ==
    (/\ cfg.cls \in {"menu", "Menu"}
     /\ last.kind = "__init__" /\ last.pc = "done"
     /\ \E i \in 1..total_pages(pages) :
           pages[i].kind = "Page" /\ pages[i].len > MaxMessageSize)
    => /\ last.res = [NoRes EXCEPT !.tag = "raise", !.exc = "ValueError"]
       /\ message = 0

\* C23: running is true only while the wait/dispatch loop is active: in every
\* state in which no display call is in progress (before the first display, and
\* after display has returned or raised for any reason), running is false.
C23_RunningOnlyInLoop ==
    (cfg.cls = "menu" /\ \A c \in Calls : frames[c].kind # "display") => ~running

\* the fixed order of the controls: selectors, navigation, general
ControlOrder == selector_list \o buttons_navigation \o buttons_general

ControlPos(sym) == CHOOSE i \in 1..Len(ControlOrder) : ControlOrder[i] = sym

\* the controls a display of the session is to attach
ControlWanted(sym) ==
    /\ cfg.show_buttons
    /\ sym \in SeqSet(selector_list) => cfg.selectors
    /\ sym \in SeqSet(buttons_navigation) => total_pages(pages) > 1
    /\ sym \in SeqSet(buttons_general) => cfg.show_general_buttons

\* C24: display attaches the controls in a fixed order: the selector symbols,
\* then first/previous/next/last (only with more than one page), then the general
\* symbols (only when enabled): every control attached is a wanted one, the first
\* one attached has no wanted control before it, each next one is the next wanted
\* control of the order, and the loop starts when no wanted control is left.
C24_ControlsInFixedOrder ==
    [][\A c \in Calls :
          LET f == frames[c]
              g == frames'[c]
              before(sym) == {s \in SeqSet(ControlOrder) : ControlPos(s) < ControlPos(sym)}
              after(sym)  == {s \in SeqSet(ControlOrder) : ControlPos(s) > ControlPos(sym)}
          IN  (cfg.cls = "menu" /\ g # f /\ f.kind = "display") =>
                 /\ g.pc = "d_react" =>
                       /\ g.sym \in SeqSet(ControlOrder) /\ ControlWanted(g.sym)
                       /\ g.tgt = message'
                 /\ (f.pc # "d_react" /\ g.pc = "d_react") =>
                       \A s \in before(g.sym) : ~ControlWanted(s)
                 /\ (f.pc = "d_react" /\ g.pc = "d_react") =>
                       /\ ControlPos(g.sym) > ControlPos(f.sym)
                       /\ \A s \in after(f.sym) \cap before(g.sym) : ~ControlWanted(s)
                 /\ (f.pc = "d_react" /\ g.pc = "waiting") =>
                       \A s \in after(f.sym) : ~ControlWanted(s)]_vars

\* on a session with selectors, several pages and general buttons the stop
\* control is being attached, after the selector and the navigation controls
C24_Witness ==
    \E c \in Calls :
        /\ cfg.cls = "menu"
        /\ cfg.selectors /\ total_pages(pages) > 1 /\ cfg.show_general_buttons
        /\ frames[c].pc = "d_react"
        /\ frames[c].sym \in SeqSet(buttons_general)

C26_ResetPositionRendersFirst ==
    [][\A c \in Calls :
          LET n  == current_page_number
              n2 == current_page_number'
              a  == After(c)
          IN  cfg.cls \in {"menu", "Menu"} =>
                 /\ \A new, reset \in BOOLEAN :
                       (display_entry_ok(message, new) /\ CallDisplay(c, new, reset)) =>
                          /\ n2 = IF reset THEN 1 ELSE n
                          /\ a.pc \in {"d_send", "d_edit"} => a.content.page = pages[n2]
                 /\ (frames[c].pc \in {"d_clear", "d_delete"}
                     /\ a.pc \in {"d_send", "d_edit"}) =>
                          /\ n2 = n
                          /\ a.content.page = pages[n]
                 /\ (/\ frames[c].pc \in {"d_send", "d_edit"}
                     /\ a.pc \in {"d_react", "waiting"}
                     /\ frames[c].pc = "d_edit" => frames[c].tgt = message) =>
                          /\ n2 = n
                          /\ shown' = frames[c].content
                          /\ shown'.page = pages[n]]_vars

\* a display is rendering page 1 on a session whose bound message shows a later
\* page: the position was reset
C26_Witness ==
    \E c \in Calls :
        /\ cfg.cls \in {"menu", "Menu"}
        /\ frames[c].kind = "display" /\ frames[c].pc \in {"d_send", "d_edit"}
        /\ frames[c].content.page = pages[1]
        /\ message # 0 /\ live[message] /\ shown.num > 1

\* C27: first-page followed by last-page yields currentIndex = totalPages from any
\* starting index (so applying the pair a second time changes nothing): a
\* last-page call made right after a first-page call has ended leaves the index
\* at totalPages.
C27_FirstThenLast ==
    [][\A c \in Calls :
          (/\ cfg.cls = "menu"
           /\ last.kind = "first" /\ last.pc = "done"
           /\ CallNav(c, "last"))
          => current_page_number' = total_pages(pages)]_vars

\* C28: every wait that did not win its race is cancelled before the waits of the
\* next race are created, and when display exits by any path no wait it created
\* is still pending: a wait is pending only in a loop that is suspended in its
\* race, never in a coroutine that is dispatching, re-rendering, tearing down or
\* that has ended.
C28_LosersCancelled ==
    \A f \in Coroutines :
        f.pc # "waiting" => \A t \in TaskNames : f.tasks[t].st # "pending"

\* a display call has ended after a race whose losing waits were cancelled
C28_Witness ==
    /\ cfg.cls \in {"menu", "Menu"}
    /\ last.kind = "display" /\ last.pc = "done"
    /\ last.wtask # "none"
    /\ \E t \in TaskNames : last.tasks[t].st = "cancelled"

\* C29: the wait/dispatch loop itself never changes currentIndex: an iteration
\* that ends in a timeout, or whose winner is a free-form message, a selector
\* reaction or an auxiliary reaction, leaves currentIndex and pages unchanged;
\* currentIndex changes only in a step that runs a navigation action or set-page
\* (called, or dispatched for a control reaction) or that enters display.
C29_LoopKeepsIndex ==
    [][\A c \in Calls :
          LET a == After(c) IN
          /\ (/\ frames[c].pc = "waiting"
              /\ a.ret = "timeout" \/ a.wtask \in {"msg", "sel", "aux"})
             => UNCHANGED <<current_page_number, pages>>
          /\ (current_page_number' # current_page_number /\ frames'[c] # frames[c]) =>
                \/ a.kind \in SeqSet(buttons_navigation) \cup {"set_page"}
                \/ a.kind = "display" /\ frames[c].pc = "idle"
                \/ /\ a.kind = "display" /\ frames[c].pc = "waiting"
                   /\ a.wtask \in {"add", "rem"}
                   /\ a.payload.emoji \in SeqSet(buttons_navigation)]_vars

\* in menu.py an auxiliary reaction carrying a navigation symbol has won a race
\* and display has ended
C29_Witness ==
    /\ cfg.cls = "menu"
    /\ last.kind = "display" /\ last.pc = "done"
    /\ last.wtask = "aux"
    /\ last.payload.emoji \in SeqSet(buttons_navigation)

\* C30: each navigation action dispatched by the loop causes exactly one edit of
\* the bound message, issued after currentIndex has been updated and before the
\* next race begins: the dispatch step updates the index and issues the edit of
\* the page at the new index, and the step that completes that edit issues no
\* other one.
C30_OneEditPerAction ==
    [][\A c \in Calls :
          LET a == After(c) IN
          cfg.cls \in {"menu", "Menu"} =>
             /\ (/\ frames[c].pc = "waiting"
                 /\ a.wtask \in {"add", "rem"}
                 /\ a.payload.emoji \in SeqSet(buttons_navigation))
                => /\ a.pc = "a_edit" /\ a.tgt = message
                   /\ a.content.page = pages[current_page_number']
             /\ (/\ frames[c].kind = "display" /\ frames[c].pc = "a_edit"
                 /\ frames'[c] # frames[c])
                => a.pc \in {"waiting", "done"}]_vars

\* C31: size validation is read-only: no step of the constructor changes pages,
\* so after a construction in which validation succeeds pages holds exactly the
\* pages that were given, in the same order, none of them replaced by its
\* rendered form, and currentIndex is 1.
C31_ValidationReadOnly ==
    [][cfg.cls \in {"Menu", "BetterNavigator"} =>
          /\ pages' = pages
          /\ (last'.kind = "__init__" /\ last'.res.tag = "returned") =>
                /\ current_page_number' = 1
                /\ \A i \in 1..total_pages(pages') : pages'[i] \in GivenPages]_vars

\* the construction of a session of MaxPages pages has succeeded, the length
\* check having walked the pages before the last one, which is an embedded page
C31_Witness ==
    /\ cfg.cls \in {"Menu", "BetterNavigator"}
    /\ last.kind = "__init__" /\ last.res.tag = "returned"
    /\ total_pages(pages) = MaxPages
    /\ pages[MaxPages].kind = "EmbeddedPage"
    /\ current_page_number = 1

C33_RunningSetAfterSetup ==
    [][\A c \in Calls :
          LET f == frames[c]
              a == After(c)
              after(sym) == {s \in SeqSet(ControlOrder) : ControlPos(s) > ControlPos(sym)}
          IN  (/\ cfg.cls \in {"menu", "Menu"}
               /\ frames'[c] # f /\ a.kind = "display"
               /\ f.pc \in {"idle", "d_clear", "d_delete", "d_send", "d_edit", "d_react"}
               /\ \A d \in Calls \ {c} : frames[d].kind # "display") =>
                 /\ (running' /\ ~running) =>
                       /\ a.pc = "waiting"
                       /\ f.pc \in {"d_send", "d_edit", "d_react"}
                       /\ f.pc = "d_react" => \A s \in after(f.sym) : ~ControlWanted(s)
                 /\ (a.pc = "done" /\ a.res.exc \in TransportErrors) =>
                       /\ ~running'
                       /\ a.tasks = NoTasks]_vars

\* C34: addPage never changes currentIndex: after addPage(page, p) currentIndex has
\* the value it had before the call, also when p <= currentIndex, in which case
\* the page at currentIndex is a different page than before the call (the new
\* page, or the page that used to be one place before).
C34_AddPageKeepsIndex ==
    [][\A c \in Calls, p \in 0..MaxPages :
          LET n == current_page_number
              x == MaxPages + 1
          IN  (cfg.cls = "menu" /\ CallAddPage(c, x, p)) =>
                 /\ current_page_number' = n
                 /\ (1 <= p /\ p <= n) =>
                       current_page(pages', n) # current_page(pages, n)]_vars

\* C35: stop() called on a session that has never been displayed (no bound
\* message) sets running = false and returns normally, for every configuration
\* of removeMessageAfter and removeReactionsAfter, the defaults included.
C35_StopBeforeDisplay ==
    (/\ cfg.cls = "menu"
     /\ message = 0
     /\ last.kind = "stop" /\ last.pc = "done")
    => /\ last.res.tag = "returned"
       /\ ~running

====
